---- MODULE Spec2Model ----
(***************************************************************************)
(* octoling: the webhook dispatcher (src/api/github.rs), the runner        *)
(* lifecycle controller (src/manager.rs), the config registry              *)
(* (src/config.rs) and the LXC provider (src/provider/lxc).                *)
(***************************************************************************)
EXTENDS Integers, Sequences, FiniteSets, TLC

\* ------------------------------------------------------------------ bounds
\* Size of the digest space of the abstract keyed hash.
NDigests == 4

\* ------------------------------------------------------- program constants
SHA256_SIZE == 32
SHA256_HEX_SIZE == 64
SHA256_PREFIX == <<"s", "h", "a", "2", "5", "6", "=">>
RUNNER_DL_URL == "https://github.com/actions/runner/releases/download/v2.283.3/actions-runner-linux-x64-2.283.3.tar.gz"

\* ----------------------------------------------------------- configuration
\* The [[github]] table of the configuration file.  A webhook secret is a
\* key of the abstract keyed hash.
GLOBAL_GITHUB_CONFIG ==
  << [owner |-> "acme", repository |-> "widgets", api_token |-> "apiA",
      webhook_secret |-> 1, enabled |-> TRUE],
     [owner |-> "acme", repository |-> "gadgets", api_token |-> "apiB",
      webhook_secret |-> 2, enabled |-> TRUE] >>

\* The [[provider]] table.
GLOBAL_PROVIDER_CONFIG ==
  << [name |-> "first", id |-> "lxc1", provider_type |-> "lxc", enabled |-> TRUE],
     [name |-> "second", id |-> "lxc2", provider_type |-> "lxc", enabled |-> TRUE] >>

\* The [[image]] table, in configuration order.  name is the image
\* specification, given as its ':'-separated fields.
GLOBAL_IMAGE_CONFIG ==
  << [name |-> <<"download", "debian", "bullseye", "amd64">>, id |-> "img-gpu",
      provider_id |-> "lxc2", enabled |-> TRUE, labels |-> <<"gpu">>],
     [name |-> <<"download", "debian", "bullseye", "amd64">>, id |-> "img-linux",
      provider_id |-> "lxc1", enabled |-> TRUE, labels |-> <<"linux-x64", "fast">>],
     [name |-> <<"download", "debian", "bullseye", "amd64">>, id |-> "img-alt",
      provider_id |-> "lxc1", enabled |-> TRUE, labels |-> <<"fast", "gpu">>],
     [name |-> <<"download", "debian", "bullseye", "amd64">>, id |-> "img-mac",
      provider_id |-> "nowhere", enabled |-> TRUE, labels |-> <<"mac">>],
     [name |-> <<"download", "debian">>, id |-> "img-arm",
      provider_id |-> "lxc1", enabled |-> TRUE, labels |-> <<"arm">>] >>

\* The keys of the provider map: one LxcProvider per configured provider.
GLOBAL_PROVIDER == {GLOBAL_PROVIDER_CONFIG[i].id : i \in 1..Len(GLOBAL_PROVIDER_CONFIG)}

RECURSIVE FindAccountRepoOnly(_, _, _)
FindAccountRepoOnly(i, owner, repository) ==
  IF i > Len(GLOBAL_GITHUB_CONFIG) THEN 0
  ELSE IF GLOBAL_GITHUB_CONFIG[i].repository = repository THEN i
  ELSE FindAccountRepoOnly(i + 1, owner, repository)

RECURSIVE FindAccount(_, _, _)
FindAccount(i, owner, repository) ==
  IF i > Len(GLOBAL_GITHUB_CONFIG) THEN 0
  ELSE IF GLOBAL_GITHUB_CONFIG[i].owner = owner
          /\ GLOBAL_GITHUB_CONFIG[i].repository = repository THEN i
  ELSE FindAccount(i + 1, owner, repository)

\* Index of the first account with that owner and repository, 0 for None.
get_github_config_by_owner_and_repo(owner, repository) ==
  FindAccount(1, owner, repository)

Contains(seq, x) == \E j \in 1..Len(seq) : seq[j] = x

RECURSIVE FindImage(_, _)
FindImage(i, label) ==
  IF i > Len(GLOBAL_IMAGE_CONFIG) THEN 0
  ELSE IF Contains(GLOBAL_IMAGE_CONFIG[i].labels, label) THEN i
  ELSE FindImage(i + 1, label)

\* Index of the first recipe whose labels contain the label, 0 for None.
get_image_config_by_label(label) == FindImage(1, label)

get_repo_url(account) ==
  "https://github.com/" \o account.owner \o "/" \o account.repository \o "/"

\* ------------------------------------------------------------------ events
NoName == "null"

WorkflowJobEvent(owner, repo, id, status, labels, runner_name) ==
  [owner |-> owner, repo |-> repo, id |-> id, status |-> status,
   labels |-> labels, runner_name |-> runner_name]

NoEvent == WorkflowJobEvent("", "", 0, "", <<>>, NoName)

get_runner_id_by_job_event(event) ==
  "octoling-" \o event.owner \o "-" \o event.repo \o "-" \o ToString(event.id)

\* The request bodies the model sends: utf8 says whether the bytes are valid
\* UTF-8, event is what serde_json makes of them (NoEvent: a parse error).
Bodies ==
  << [utf8 |-> FALSE, event |-> NoEvent],
     [utf8 |-> TRUE, event |-> NoEvent],
     [utf8 |-> TRUE, event |->
        WorkflowJobEvent("acme", "widgets", 42, "queued",
                         <<"self-hosted", "fast", "gpu">>, NoName)],
     [utf8 |-> TRUE, event |->
        WorkflowJobEvent("acme", "gadgets", 7, "queued", <<"gpu">>, NoName)],
     [utf8 |-> TRUE, event |->
        WorkflowJobEvent("other", "widgets", 42, "queued", <<"fast">>, NoName)],
     [utf8 |-> TRUE, event |->
        WorkflowJobEvent("acme", "widgets", 42, "queued", <<>>, NoName)],
     [utf8 |-> TRUE, event |->
        WorkflowJobEvent("acme", "widgets", 42, "queued", <<"self-hosted">>, NoName)],
     [utf8 |-> TRUE, event |->
        WorkflowJobEvent("acme", "widgets", 42, "queued", <<"mac">>, NoName)],
     [utf8 |-> TRUE, event |->
        WorkflowJobEvent("acme", "widgets", 42, "queued", <<"arm">>, NoName)],
     [utf8 |-> TRUE, event |->
        WorkflowJobEvent("acme", "widgets", 42, "in_progress", <<"fast">>,
                         "octoling-acme-widgets-42")],
     [utf8 |-> TRUE, event |->
        WorkflowJobEvent("acme", "widgets", 42, "completed", <<"fast">>,
                         "octoling-acme-widgets-42")],
     [utf8 |-> TRUE, event |->
        WorkflowJobEvent("acme", "widgets", 42, "completed", <<"fast">>, NoName)],
     [utf8 |-> TRUE, event |->
        WorkflowJobEvent("acme", "widgets", 43, "completed", <<"fast">>, "foreign")] >>

BodyIds == 1..Len(Bodies)
EventTypes == {"workflow_job", "push"}

\* --------------------------------------------------------------- signatures
HexLower == <<"0", "1", "2", "3", "4", "5", "6", "7", "8", "9",
              "a", "b", "c", "d", "e", "f">>
HexUpper == <<"0", "1", "2", "3", "4", "5", "6", "7", "8", "9",
              "A", "B", "C", "D", "E", "F">>

\* Value of a hex digit of either case, -1 for any other character.
HexVal(c) ==
  IF \E i \in 1..Len(HexLower) : HexLower[i] = c
    THEN (CHOOSE i \in 1..Len(HexLower) : HexLower[i] = c) - 1
  ELSE IF \E i \in 1..Len(HexUpper) : HexUpper[i] = c
    THEN (CHOOSE i \in 1..Len(HexUpper) : HexUpper[i] = c) - 1
  ELSE -1

HexErr == [ok |-> FALSE, bytes |-> <<>>]

\* <[u8; SHA256_SIZE]>::from_hex
FromHex(s) ==
  IF Len(s) % 2 # 0 THEN HexErr
  ELSE IF Len(s) \div 2 # SHA256_SIZE THEN HexErr
  ELSE IF \E i \in 1..Len(s) : HexVal(s[i]) < 0 THEN HexErr
  ELSE [ok |-> TRUE,
        bytes |-> [i \in 1..SHA256_SIZE |->
                     HexVal(s[2 * i - 1]) * 16 + HexVal(s[2 * i])]]

HexEncode(bytes, alphabet) ==
  [i \in 1..(2 * Len(bytes)) |->
     IF i % 2 = 1 THEN alphabet[(bytes[(i + 1) \div 2] \div 16) + 1]
     ELSE alphabet[(bytes[i \div 2] % 16) + 1]]

\* The SHA256_SIZE bytes of digest number d.
DigestBytes(d) == [i \in 1..SHA256_SIZE |-> (d * 41 + i * 7) % 256]

\* HMAC-SHA256 of a body under a key: a keyed hash into NDigests digests
\* (different keys never agree on a body; different bodies may collide).
Hmac(secret, body) == (3 * secret + body) % NDigests

\* hasher.update(&data); hasher.finalize().into_bytes()
ComputedSignature(github_config, body) ==
  DigestBytes(Hmac(github_config.webhook_secret, body))

\* The signature headers the model sends.
Sigs ==
  {[kind |-> "digest", d |-> d] : d \in 0..(NDigests - 1)}
  \cup {[kind |-> k, d |-> 0] :
          k \in {"upper", "short", "long", "badprefix", "nothex", "empty"}}

NoSig == [kind |-> "-", d |-> 0]

ValidSigText(d) == SHA256_PREFIX \o HexEncode(DigestBytes(d), HexLower)

\* The characters of a signature header.
SigText(sig) ==
  CASE sig.kind = "digest" -> ValidSigText(sig.d)
    [] sig.kind = "upper" -> SHA256_PREFIX \o HexEncode(DigestBytes(sig.d), HexUpper)
    [] sig.kind = "short" -> SubSeq(ValidSigText(sig.d), 1, Len(ValidSigText(sig.d)) - 1)
    [] sig.kind = "long" -> ValidSigText(sig.d) \o <<"0">>
    [] sig.kind = "badprefix" ->
         <<"s", "h", "a", "5", "1", "2", "=">> \o HexEncode(DigestBytes(sig.d), HexLower)
    [] sig.kind = "nothex" ->
         SubSeq(ValidSigText(sig.d), 1, Len(ValidSigText(sig.d)) - 1) \o <<"z">>
    [] OTHER -> <<>>

StartsWith(s, prefix) ==
  Len(s) >= Len(prefix) /\ SubSeq(s, 1, Len(prefix)) = prefix


\* ------------------------------------------------------- webhook dispatcher
VerifyFirstOnly(i, expected_signature, body) ==
  IF Len(GLOBAL_GITHUB_CONFIG) >= i
     /\ ComputedSignature(GLOBAL_GITHUB_CONFIG[i], body) = expected_signature
    THEN [auth |-> i, hmacs |-> i]
  ELSE [auth |-> 0, hmacs |-> i]

VerifyAny(i, expected_signature, body) ==
  [auth |-> 1, hmacs |-> 1]

RECURSIVE VerifyFrom(_, _, _)
\* The loop over the accounts: the index of the first account whose digest
\* of the body equals the presented one (0: none) and the digests computed.
VerifyFrom(i, expected_signature, body) ==
  IF i > Len(GLOBAL_GITHUB_CONFIG) THEN [auth |-> 0, hmacs |-> i - 1]
  ELSE IF ComputedSignature(GLOBAL_GITHUB_CONFIG[i], body) = expected_signature
    THEN [auth |-> i, hmacs |-> i]
  ELSE VerifyFrom(i + 1, expected_signature, body)

WorkflowJobHandlerSpawnAll(body) ==
  IF Bodies[body].event = NoEvent THEN [reply |-> "400", spawn |-> "none"]
  ELSE IF Bodies[body].event.status = "completed"
    THEN [reply |-> "200", spawn |-> "teardown"]
  ELSE [reply |-> "200", spawn |-> "provision"]

WorkflowJobHandlerAwaits(body) ==
  IF Bodies[body].event = NoEvent THEN [reply |-> "400", spawn |-> "none"]
  ELSE IF Bodies[body].event.status = "queued"
    THEN [reply |-> "500", spawn |-> "provision"]
  ELSE IF Bodies[body].event.status = "completed"
    THEN [reply |-> "200", spawn |-> "teardown"]
  ELSE [reply |-> "200", spawn |-> "none"]

\* The reply and the task to spawn for a workflow_job body.
webhook_workflow_job_handler(body) ==
  IF Bodies[body].event = NoEvent THEN [reply |-> "400", spawn |-> "none"]
  ELSE IF Bodies[body].event.status = "queued"
    THEN [reply |-> "200", spawn |-> "provision"]
  ELSE IF Bodies[body].event.status = "completed"
    THEN [reply |-> "200", spawn |-> "teardown"]
  ELSE [reply |-> "200", spawn |-> "none"]

DispatchNoUtf8Check(event_type, body) ==
  IF event_type = "workflow_job" THEN webhook_workflow_job_handler(body)
  ELSE [reply |-> "200", spawn |-> "none"]

\* What follows a matching digest: the UTF-8 check and the dispatch on the
\* event type.
Dispatch(event_type, body) ==
  IF ~Bodies[body].utf8 THEN [reply |-> "500", spawn |-> "none"]
  ELSE IF event_type = "workflow_job" THEN webhook_workflow_job_handler(body)
  ELSE [reply |-> "200", spawn |-> "none"]

Outcome(reply, hmacs, auth, spawn) ==
  [reply |-> reply, hmacs |-> hmacs, auth |-> auth, spawn |-> spawn]

\* The reply of the handler ("panic": the handler panics and the connection
\* is dropped without a reply), the digests it computed, the account that
\* authenticated the request and the task it spawns.
webhook_handler(event_type, sig, body) ==
  LET signature == SigText(sig) IN
  IF Len(signature) # SHA256_HEX_SIZE + Len(SHA256_PREFIX)
     \/ ~StartsWith(signature, SHA256_PREFIX)
    THEN Outcome("400", 0, 0, "none")
  ELSE
    LET provided ==
          FromHex(SubSeq(signature, Len(SHA256_PREFIX) + 1, Len(signature)))
    IN
    IF ~provided.ok THEN Outcome("panic", 0, 0, "none")
    ELSE
      LET v == VerifyFrom(1, provided.bytes, body) IN
      IF v.auth = 0 THEN Outcome("401", v.hmacs, 0, "none")
      ELSE
        LET d == Dispatch(event_type, body) IN
        Outcome(d.reply, v.hmacs, v.auth, d.spawn)


\* ------------------------------------------------------------ LXC backend
\* A container of the host's LXC installation is "undefined", "stopped" or
\* "running".  LxcProvider holds no state of its own: every configured
\* provider works on the same containers.
ContainerNames ==
  {"foreign"}
  \cup {get_runner_id_by_job_event(Bodies[b].event) :
          b \in {x \in BodyIds : Bodies[x].event.status = "queued"}}
  \cup {Bodies[b].event.runner_name :
          b \in {x \in BodyIds : Bodies[x].event.runner_name # NoName}}

Step(res, st) == [res |-> res, st |-> st]

LxcProviderCreateOverwrites(st, image_config, backend_ok) ==
  IF Len(image_config.name) - 1 < 3 THEN Step("InvalidImage", st)
  ELSE IF backend_ok THEN Step("Ok", "stopped")
  ELSE Step("RunnerCreationFailed", st)

\* LxcProvider::create; backend_ok: whether lxc's create succeeds.
LxcProviderCreate(st, image_config, backend_ok) ==
  IF st # "undefined" THEN Step("RunnerCreationFailed", st)
  ELSE IF Len(image_config.name) - 1 < 3 THEN Step("InvalidImage", st)
  ELSE IF backend_ok THEN Step("Ok", "stopped")
  ELSE Step("RunnerCreationFailed", st)

LxcRunnerStartRestarts(st, daemonize_ok, backend_ok) ==
  IF ~daemonize_ok THEN Step("RunnerStartFailed", st)
  ELSE IF backend_ok /\ st \in {"stopped", "running"} THEN Step("Ok", "running")
  ELSE IF st = "running" THEN Step("RunnerStartFailed", "stopped")
  ELSE Step("RunnerStartFailed", st)

\* LxcRunner::start: want_daemonize, then Container::start.
LxcRunnerStart(st, daemonize_ok, backend_ok) ==
  IF ~daemonize_ok THEN Step("RunnerStartFailed", st)
  ELSE IF st = "running" THEN Step("Ok", st)
  ELSE IF backend_ok /\ st = "stopped" THEN Step("Ok", "running")
  ELSE Step("RunnerStartFailed", st)

\* LxcRunner::stop over Container::stop.
LxcRunnerStop(st, backend_ok) ==
  IF st = "running"
    THEN IF backend_ok THEN Step("Ok", "stopped") ELSE Step("RunnerStopFailed", st)
  ELSE Step("Ok", st)

\* Container::destroy: lxc removes a container that is defined and stopped.
ContainerDestroy(st, backend_ok) ==
  IF st = "stopped" /\ backend_ok THEN Step("Ok", "undefined")
  ELSE Step("RunnerDestructionFailed", st)

\* LxcProvider::get over get_container: a handle on a defined container.
LxcProviderGet(st) ==
  IF st = "undefined" THEN Step("RunnerNotFound", st) ELSE Step("Ok", st)

LxcProviderDestroyForces(st, stop_ok, destroy_ok) ==
  IF st = "undefined" THEN Step("RunnerNotFound", st)
  ELSE IF LxcRunnerStop(st, stop_ok).res # "Ok" THEN Step("RunnerStopFailed", "undefined")
  ELSE IF destroy_ok THEN Step("Ok", "undefined")
  ELSE Step("RunnerDestructionFailed", LxcRunnerStop(st, stop_ok).st)

\* LxcProvider::destroy: get_container, stop, Container::destroy.
LxcProviderDestroy(st, stop_ok, destroy_ok) ==
  IF st = "undefined" THEN Step("RunnerNotFound", st)
  ELSE IF LxcRunnerStop(st, stop_ok).res # "Ok" THEN LxcRunnerStop(st, stop_ok)
  ELSE IF destroy_ok THEN Step("Ok", "undefined")
  ELSE Step("RunnerDestructionFailed", LxcRunnerStop(st, stop_ok).st)

\* What lxc's attach_run_wait may answer: the exit status of the command,
\* or -1 when the command could not be attached.
RunAnswers == {-1, 0, 1, 2}

\* LxcRunner::run over Container::run: Ok(exit code) or RunnerRunFailed.
LxcRunnerRun(st, answer) ==
  IF st = "running" /\ answer >= 0 THEN [res |-> "Ok", code |-> answer]
  ELSE [res |-> "RunnerRunFailed", code |-> -1]

\* ------------------------------------------------------------- controller
CollapsedError(e) == "InstallationFailed"

\* From<ProviderError> for ManagerError.
ProviderError(e) == "Provider(" \o e \o ")"

EnsureSuccessOnlyOne(error_code) ==
  IF error_code = 1 THEN "InstallationFailed" ELSE "Ok"

ensure_success_error_code(error_code) ==
  IF error_code # 0 THEN "InstallationFailed" ELSE "Ok"

BootstrapArgvRegistersEveryStep(label, registration_token, repository_url, runner_id) ==
  [i \in 1..14 |->
     <<"sudo", "-u", "runner", "bash", "config.sh", "--unattended", "--ephemeral",
       "--url", repository_url, "--token", registration_token,
       "--name", runner_id, "--labels", "octoling" \o "," \o label>>]

\* The argv of the runner.run calls of setup_runner, in order.
BootstrapArgv(label, registration_token, repository_url, runner_id) ==
  << <<"apt-get", "update">>,
     <<"apt-get", "install", "-y", "curl", "tar", "gzip", "sudo">>,
     <<"curl", "https://get.docker.com/", "-o", "install_docker.sh">>,
     <<"sh", "install_docker.sh", "install", "runner">>,
     <<"curl", "-L", RUNNER_DL_URL, "-o", "runner.tar.gz">>,
     <<"useradd", "-m", "runner">>,
     <<"bash", "-c", "echo", "runner ALL=(ALL:ALL) NOPASSWD:ALL", ">>", "/etc/sudoers">>,
     <<"usermod", "-a", "-G", "docker", "runner">>,
     <<"mkdir", "/runner">>,
     <<"chown", "runner:runner", "/runner">>,
     <<"sudo", "-u", "runner", "tar", "xzf", "runner.tar.gz", "-C", "/runner">>,
     <<"sudo", "-u", "runner", "bash", "config.sh", "--unattended", "--ephemeral",
       "--url", repository_url, "--token", registration_token,
       "--name", runner_id, "--labels", "octoling" \o "," \o label>>,
     <<"bash", "svc.sh", "install", "runner">>,
     <<"bash", "svc.sh", "start">> >>

RECURSIVE SelectLastFrom(_, _)
SelectLastFrom(j, labels) ==
  IF j > Len(labels) THEN 0
  ELSE IF SelectLastFrom(j + 1, labels) # 0 THEN SelectLastFrom(j + 1, labels)
  ELSE get_image_config_by_label(labels[j])

RECURSIVE SelectFrom(_, _)
\* The walk over the labels of the event: the recipe of the first label
\* that some recipe matches, 0 when no label is matched.
SelectFrom(j, labels) ==
  IF j > Len(labels) THEN 0
  ELSE IF get_image_config_by_label(labels[j]) # 0
    THEN get_image_config_by_label(labels[j])
  ELSE SelectFrom(j + 1, labels)

\* ------------------------------------------------------------------ state
VARIABLES
  conn,          \* the request the webhook handler is answering
  tasks,         \* the background tasks spawned by the handler
  containers,    \* the containers of the LXC installation
  providerLock,  \* the mutex of each provider: the task holding it, 0 if free
  provOrder      \* the iteration order of the keys of the provider map,
                 \* <<>> until a teardown first iterates over them

vars == <<conn, tasks, containers, providerLock, provOrder>>

\* GLOBAL_PROVIDER.get(id): the mutex registered under id, if any.
get_provider(id) == IF id \in DOMAIN providerLock THEN id ELSE "None"

\* The background tasks the dispatcher may spawn in one run of the model.
TaskIds == {1, 2}

IdleConn ==
  [phase |-> "idle", etype |-> "-", sig |-> NoSig, body |-> 0,
   reply |-> "-", hmacs |-> 0, auth |-> 0, spawned |-> 0]

FreeTask ==
  [kind |-> "free", body |-> 0, pc |-> "-", step |-> 0, acct |-> 0, img |-> 0,
   token |-> "", err |-> "", result |-> "-", log |-> <<>>,
   ran |-> FALSE, runFail |-> "", config |-> <<>>]

NewTask(kind, body) == [FreeTask EXCEPT !.kind = kind, !.body = body, !.pc = "begin"]

Call(op, prov, res) == [op |-> op, prov |-> prov, res |-> res]

Event(t) == Bodies[tasks[t].body].event
RunnerId(t) == get_runner_id_by_job_event(Event(t))
Image(t) == GLOBAL_IMAGE_CONFIG[tasks[t].img]
Account(t) == GLOBAL_GITHUB_CONFIG[tasks[t].acct]

MatchedLabel(t) ==
  LET labels == Event(t).labels
      j == CHOOSE j \in 1..Len(labels) :
             /\ get_image_config_by_label(labels[j]) # 0
             /\ \A i \in 1..(j - 1) : get_image_config_by_label(labels[i]) = 0
  IN labels[j]

\* The label handed to start_new_runner: image_config.labels[0].
PrimaryLabel(t) == Image(t).labels[1]

Orders(S) ==
  {f \in [1..Cardinality(S) -> S] : \A i, j \in 1..Cardinality(S) : f[i] = f[j] => i = j}

Init ==
  /\ conn = IdleConn
  /\ tasks = [t \in TaskIds |-> FreeTask]
  /\ containers = [n \in ContainerNames |-> IF n = "foreign" THEN "running" ELSE "undefined"]
  /\ providerLock = [p \in GLOBAL_PROVIDER |-> 0]
  /\ provOrder = <<>>

\* GLOBAL_PROVIDER.keys(): an order fixed when the map is built, the same at
\* every iteration; the model draws it at the first iteration.
KeysOrders ==
  IF provOrder = <<>> THEN Orders(DOMAIN providerLock) ELSE {provOrder}

FreeSlots == {t \in TaskIds : tasks[t].kind = "free"}
NextSlot == CHOOSE t \in FreeSlots : \A u \in FreeSlots : t <= u

Finish(t, result) == [tasks[t] EXCEPT !.pc = "done", !.result = result]

\* webhook_handler on every request of the model (evaluated once).
Handled ==
  [event_type \in EventTypes, sig \in Sigs, body \in BodyIds |->
     webhook_handler(event_type, sig, body)]

\* ---------------------------------------------------------------- actions
\* webhook_handler up to its return: the verdict on the request and the
\* tokio::spawn of the background task.  The model takes a request while a
\* task slot is free and answers one request at a time.
Receive(event_type, sig, body) ==
  /\ conn.phase = "idle"
  /\ FreeSlots # {}
  /\ LET out == Handled[event_type, sig, body] IN
     /\ conn' = [phase |-> "replying", etype |-> event_type, sig |-> sig,
                 body |-> body, reply |-> out.reply, hmacs |-> out.hmacs,
                 auth |-> out.auth,
                 spawned |-> IF out.spawn = "none" THEN 0 ELSE NextSlot]
     /\ tasks' = IF out.spawn = "none" THEN tasks
                 ELSE [tasks EXCEPT ![NextSlot] = NewTask(out.spawn, body)]
  /\ UNCHANGED <<containers, providerLock, provOrder>>

\* The reply goes out on the connection (a panicked handler sends none).
SendReply ==
  /\ conn.phase = "replying"
  /\ conn' = IdleConn
  /\ UNCHANGED <<tasks, containers, providerLock, provOrder>>

\* handle_workflow_job_queued up to the call of start_new_runner.
QueuedBegin(t) ==
  /\ tasks[t].kind = "provision" /\ tasks[t].pc = "begin"
  /\ LET acct == get_github_config_by_owner_and_repo(Event(t).owner, Event(t).repo)
         img == IF acct = 0 THEN 0 ELSE SelectFrom(1, Event(t).labels)
     IN tasks' = [tasks EXCEPT ![t] =
          IF img = 0 THEN Finish(t, "Unhandled")
          ELSE [tasks[t] EXCEPT !.pc = "token", !.acct = acct, !.img = img]]
  /\ UNCHANGED <<conn, containers, providerLock, provOrder>>

RequestTokenIgnoringFailure(t) ==
  /\ tasks[t].kind = "provision" /\ tasks[t].pc = "token"
  /\ \E forge_ok \in BOOLEAN :
       tasks' = [tasks EXCEPT ![t] =
         [tasks[t] EXCEPT !.pc = "create",
            !.token = "token-" \o ToString(t),
            !.log = Append(@, Call("token", "-", IF forge_ok THEN "Ok" ELSE "Failed"))]]
  /\ UNCHANGED <<conn, containers, providerLock, provOrder>>

\* start_new_runner: request_new_repo_runner_token.  The forge mints a fresh
\* token for every request: the token of task t is named after t.
RequestToken(t) ==
  /\ tasks[t].kind = "provision" /\ tasks[t].pc = "token"
  /\ \E forge_ok \in BOOLEAN :
       tasks' = [tasks EXCEPT ![t] =
         IF forge_ok
           THEN [tasks[t] EXCEPT !.pc = "create",
                   !.token = "token-" \o ToString(t),
                   !.log = Append(@, Call("token", "-", "Ok"))]
         ELSE [Finish(t, "TokenRequestFailed") EXCEPT
                 !.log = Append(@, Call("token", "-", "Failed"))]]
  /\ UNCHANGED <<conn, containers, providerLock, provOrder>>

\* start_new_clean_runner: get_provider, lock, provider.create.
CreateRunner(t) ==
  /\ tasks[t].kind = "provision" /\ tasks[t].pc = "create"
  /\ LET p == get_provider(Image(t).provider_id) IN
     IF p = "None"
       THEN /\ tasks' = [tasks EXCEPT ![t] = Finish(t, "ProviderNotFound")]
            /\ UNCHANGED <<containers, providerLock>>
       ELSE /\ providerLock[p] = 0
            /\ \E backend_ok \in BOOLEAN :
                 LET r == LxcProviderCreate(containers[RunnerId(t)], Image(t), backend_ok) IN
                 /\ containers' = [containers EXCEPT ![RunnerId(t)] = r.st]
                 /\ IF r.res = "Ok"
                      THEN /\ providerLock' = [providerLock EXCEPT ![p] = t]
                           /\ tasks' = [tasks EXCEPT ![t] =
                                [tasks[t] EXCEPT !.pc = "start",
                                   !.log = Append(@, Call("create", p, r.res))]]
                      ELSE /\ providerLock' = providerLock
                           /\ tasks' = [tasks EXCEPT ![t] =
                                [Finish(t, ProviderError(r.res)) EXCEPT
                                   !.log = Append(@, Call("create", p, r.res))]]
  /\ UNCHANGED <<conn, provOrder>>

StartRunnerKeepsTheLock(t) ==
  /\ tasks[t].kind = "provision" /\ tasks[t].pc = "start"
  /\ \E daemonize_ok \in BOOLEAN, backend_ok \in BOOLEAN :
       LET r == LxcRunnerStart(containers[RunnerId(t)], daemonize_ok, backend_ok) IN
       /\ containers' = [containers EXCEPT ![RunnerId(t)] = r.st]
       /\ tasks' = [tasks EXCEPT ![t] =
            IF r.res = "Ok"
              THEN [tasks[t] EXCEPT !.pc = "sleep",
                      !.log = Append(@, Call("start", "-", r.res))]
              ELSE [tasks[t] EXCEPT !.pc = "cleanup",
                      !.err = ProviderError(r.res),
                      !.log = Append(@, Call("start", "-", r.res))]]
  /\ UNCHANGED <<conn, providerLock, provOrder>>

\* start_new_clean_runner: runner.start, still under the provider's lock.
StartRunner(t) ==
  /\ tasks[t].kind = "provision" /\ tasks[t].pc = "start"
  /\ \E daemonize_ok \in BOOLEAN, backend_ok \in BOOLEAN :
       LET p == Image(t).provider_id
           r == LxcRunnerStart(containers[RunnerId(t)], daemonize_ok, backend_ok)
       IN
       /\ containers' = [containers EXCEPT ![RunnerId(t)] = r.st]
       /\ IF r.res = "Ok"
            THEN /\ providerLock' = [providerLock EXCEPT ![p] = 0]
                 /\ tasks' = [tasks EXCEPT ![t] =
                      [tasks[t] EXCEPT !.pc = "sleep",
                         !.log = Append(@, Call("start", "-", r.res))]]
            ELSE /\ providerLock' = providerLock
                 /\ tasks' = [tasks EXCEPT ![t] =
                      [tasks[t] EXCEPT !.pc = "cleanup",
                         !.err = ProviderError(r.res),
                         !.log = Append(@, Call("start", "-", r.res))]]
  /\ UNCHANGED <<conn, provOrder>>

CleanupDestroyReturnsItsError(t) ==
  /\ tasks[t].kind = "provision" /\ tasks[t].pc = "cleanup"
  /\ \E stop_ok \in BOOLEAN, destroy_ok \in BOOLEAN :
       LET p == Image(t).provider_id
           r == LxcProviderDestroy(containers[RunnerId(t)], stop_ok, destroy_ok)
       IN
       /\ containers' = [containers EXCEPT ![RunnerId(t)] = r.st]
       /\ providerLock' = [providerLock EXCEPT ![p] = 0]
       /\ tasks' = [tasks EXCEPT ![t] =
            [Finish(t, IF r.res = "Ok" THEN tasks[t].err ELSE ProviderError(r.res))
               EXCEPT !.log = Append(@, Call("destroy", p, r.res))]]
  /\ UNCHANGED <<conn, provOrder>>

\* start_new_clean_runner: the destroy after a failed start, and the return
\* of the start error.
CleanupDestroy(t) ==
  /\ tasks[t].kind = "provision" /\ tasks[t].pc = "cleanup"
  /\ \E stop_ok \in BOOLEAN, destroy_ok \in BOOLEAN :
       LET p == Image(t).provider_id
           r == LxcProviderDestroy(containers[RunnerId(t)], stop_ok, destroy_ok)
       IN
       /\ containers' = [containers EXCEPT ![RunnerId(t)] = r.st]
       /\ providerLock' = [providerLock EXCEPT ![p] = 0]
       /\ tasks' = [tasks EXCEPT ![t] =
            [Finish(t, tasks[t].err) EXCEPT
               !.log = Append(@, Call("destroy", p, r.res))]]
  /\ UNCHANGED <<conn, provOrder>>

\* start_new_runner: the five seconds of sleep before setup_runner.
Sleep(t) ==
  /\ tasks[t].kind = "provision" /\ tasks[t].pc = "sleep"
  /\ tasks' = [tasks EXCEPT ![t] = [tasks[t] EXCEPT !.pc = "setup", !.step = 1]]
  /\ UNCHANGED <<conn, containers, providerLock, provOrder>>

\* setup_runner: one runner.run and its ensure_success_error_code.
RunStep(t) ==
  /\ tasks[t].kind = "provision" /\ tasks[t].pc = "setup"
  /\ \E answer \in RunAnswers :
       LET argv == BootstrapArgv(PrimaryLabel(t), tasks[t].token,
                                 get_repo_url(Account(t)), RunnerId(t))
           r == LxcRunnerRun(containers[RunnerId(t)], answer)
           verdict == IF r.res = "Ok" THEN ensure_success_error_code(r.code)
                      ELSE ProviderError(r.res)
           seen == [tasks[t] EXCEPT
                      !.ran = TRUE,
                      !.runFail = IF r.res # "Ok" THEN r.res
                                  ELSE IF r.code # 0 THEN "NonZero" ELSE "",
                      !.config = IF r.res = "Ok" /\ Contains(argv[tasks[t].step], "config.sh")
                                   THEN Append(@, argv[tasks[t].step]) ELSE @]
       IN
       tasks' = [tasks EXCEPT ![t] =
         IF verdict # "Ok" THEN [seen EXCEPT !.pc = "stop", !.step = 0, !.err = verdict]
         ELSE IF tasks[t].step = Len(argv)
           THEN [seen EXCEPT !.pc = "done", !.step = 0, !.result = "Ok"]
         ELSE [seen EXCEPT !.step = @ + 1]]
  /\ UNCHANGED <<conn, containers, providerLock, provOrder>>

\* start_new_runner: runner.stop after a failed setup_runner.
RollbackStop(t) ==
  /\ tasks[t].kind = "provision" /\ tasks[t].pc = "stop"
  /\ \E backend_ok \in BOOLEAN :
       LET r == LxcRunnerStop(containers[RunnerId(t)], backend_ok) IN
       /\ containers' = [containers EXCEPT ![RunnerId(t)] = r.st]
       /\ tasks' = [tasks EXCEPT ![t] =
            [tasks[t] EXCEPT !.pc = "destroy",
               !.log = Append(@, Call("stop", "-", r.res))]]
  /\ UNCHANGED <<conn, providerLock, provOrder>>

RollbackDestroyUnlessStopFailed(t) ==
  /\ tasks[t].kind = "provision" /\ tasks[t].pc = "destroy"
  /\ providerLock[Image(t).provider_id] = 0
  /\ \E stop_ok \in BOOLEAN, destroy_ok \in BOOLEAN :
       LET r == LxcProviderDestroy(containers[RunnerId(t)], stop_ok, destroy_ok)
           stopped == tasks[t].log[Len(tasks[t].log)].res = "Ok"
       IN
       /\ containers' = [containers EXCEPT ![RunnerId(t)] =
                           IF stopped THEN r.st ELSE @]
       /\ tasks' = [tasks EXCEPT ![t] =
            IF stopped
              THEN [Finish(t, tasks[t].err) EXCEPT
                      !.log = Append(@, Call("destroy", Image(t).provider_id, r.res))]
            ELSE Finish(t, tasks[t].err)]
  /\ UNCHANGED <<conn, providerLock, provOrder>>

\* start_new_runner: destroy_runner after the stop, and the return of the
\* setup error.
RollbackDestroy(t) ==
  /\ tasks[t].kind = "provision" /\ tasks[t].pc = "destroy"
  /\ providerLock[Image(t).provider_id] = 0
  /\ \E stop_ok \in BOOLEAN, destroy_ok \in BOOLEAN :
       LET r == LxcProviderDestroy(containers[RunnerId(t)], stop_ok, destroy_ok) IN
       /\ containers' = [containers EXCEPT ![RunnerId(t)] = r.st]
       /\ tasks' = [tasks EXCEPT ![t] =
            [Finish(t, tasks[t].err) EXCEPT
               !.log = Append(@, Call("destroy", Image(t).provider_id, r.res))]]
  /\ UNCHANGED <<conn, providerLock, provOrder>>

CompletedBeginTriesTheFirstProvider(t) ==
  /\ tasks[t].kind = "teardown" /\ tasks[t].pc = "begin"
  /\ provOrder' \in KeysOrders
  /\ tasks' = [tasks EXCEPT ![t] =
       IF Len(provOrder') = 0 THEN Finish(t, ProviderError("RunnerNotFound"))
       ELSE IF Event(t).runner_name = NoName
         THEN [Finish(t, ProviderError("RunnerNotFound")) EXCEPT
                 !.log = <<Call("destroy", provOrder'[1], "RunnerNotFound")>>]
       ELSE [tasks[t] EXCEPT !.pc = "scan", !.step = 1]]
  /\ UNCHANGED <<conn, containers, providerLock>>

\* handle_workflow_job_completed up to destroy_runner_with_runner_id.
CompletedBegin(t) ==
  /\ tasks[t].kind = "teardown" /\ tasks[t].pc = "begin"
  /\ IF Event(t).runner_name = NoName
       THEN /\ tasks' = [tasks EXCEPT ![t] = Finish(t, "Unhandled")]
            /\ provOrder' = provOrder
       ELSE /\ provOrder' \in KeysOrders
            /\ tasks' = [tasks EXCEPT ![t] =
                 IF Len(provOrder') = 0 THEN Finish(t, ProviderError("RunnerNotFound"))
                 ELSE [tasks[t] EXCEPT !.pc = "scan", !.step = 1]]
  /\ UNCHANGED <<conn, containers, providerLock>>

ScannedSkippingEveryError(t, res) ==
  LET logged == [tasks[t] EXCEPT
                   !.log = Append(@, Call("destroy", provOrder[tasks[t].step], res))]
  IN
  IF res = "Ok" THEN [logged EXCEPT !.pc = "done", !.step = 0, !.result = "Ok"]
  ELSE IF tasks[t].step = Len(provOrder)
    THEN [logged EXCEPT !.pc = "done", !.step = 0,
                        !.result = ProviderError("RunnerNotFound")]
  ELSE [logged EXCEPT !.pc = "scan", !.step = @ + 1]

\* What destroy_runner_with_runner_id does with the result of destroy_runner
\* on the provider at tasks[t].step: return it, or go on to the next one.
Scanned(t, res) ==
  LET logged == [tasks[t] EXCEPT
                   !.log = Append(@, Call("destroy", provOrder[tasks[t].step], res))]
  IN
  IF res = "Ok" THEN [logged EXCEPT !.pc = "done", !.step = 0, !.result = "Ok"]
  ELSE IF res # "RunnerNotFound"
    THEN [logged EXCEPT !.pc = "done", !.step = 0, !.result = ProviderError(res)]
  ELSE IF tasks[t].step = Len(provOrder)
    THEN [logged EXCEPT !.pc = "done", !.step = 0,
                        !.result = ProviderError("RunnerNotFound")]
  ELSE [logged EXCEPT !.pc = "scan", !.step = @ + 1]

\* destroy_runner_with_runner_id: destroy_runner on the next provider, up to
\* the end of runner.stop() in LxcProvider::destroy.  The provider's lock is
\* kept for the removal when the container is found and stopped.
ScanDestroy(t) ==
  /\ tasks[t].kind = "teardown" /\ tasks[t].pc = "scan"
  /\ providerLock[provOrder[tasks[t].step]] = 0
  /\ \E stop_ok \in BOOLEAN :
       LET p == provOrder[tasks[t].step]
           st == containers[Event(t).runner_name]
           r == IF st = "undefined" THEN Step("RunnerNotFound", st)
                ELSE LxcRunnerStop(st, stop_ok)
       IN
       /\ containers' = [containers EXCEPT ![Event(t).runner_name] = r.st]
       /\ IF r.res = "Ok"
            THEN /\ providerLock' = [providerLock EXCEPT ![p] = t]
                 /\ tasks' = [tasks EXCEPT ![t] = [tasks[t] EXCEPT !.pc = "remove"]]
            ELSE /\ providerLock' = providerLock
                 /\ tasks' = [tasks EXCEPT ![t] = Scanned(t, r.res)]
  /\ UNCHANGED <<conn, provOrder>>

\* LxcProvider::destroy: Container::destroy after the stop, the release of
\* the provider's lock, and the verdict of the scan on the result.
ScanRemove(t) ==
  /\ tasks[t].kind = "teardown" /\ tasks[t].pc = "remove"
  /\ \E destroy_ok \in BOOLEAN :
       LET p == provOrder[tasks[t].step]
           r == ContainerDestroy(containers[Event(t).runner_name], destroy_ok)
       IN
       /\ containers' = [containers EXCEPT ![Event(t).runner_name] = r.st]
       /\ providerLock' = [providerLock EXCEPT ![p] = 0]
       /\ tasks' = [tasks EXCEPT ![t] = Scanned(t, r.res)]
  /\ UNCHANGED <<conn, provOrder>>

Next ==
  \/ \E event_type \in EventTypes, sig \in Sigs, body \in BodyIds :
       Receive(event_type, sig, body)
  \/ SendReply
  \/ \E t \in TaskIds : QueuedBegin(t)
  \/ \E t \in TaskIds : RequestToken(t)
  \/ \E t \in TaskIds : CreateRunner(t)
  \/ \E t \in TaskIds : StartRunner(t)
  \/ \E t \in TaskIds : CleanupDestroy(t)
  \/ \E t \in TaskIds : Sleep(t)
  \/ \E t \in TaskIds : RunStep(t)
  \/ \E t \in TaskIds : RollbackStop(t)
  \/ \E t \in TaskIds : RollbackDestroy(t)
  \/ \E t \in TaskIds : CompletedBegin(t)
  \/ \E t \in TaskIds : ScanDestroy(t)
  \/ \E t \in TaskIds : ScanRemove(t)

Spec == Init /\ [][Next]_vars

\* One step of the spawned task t, whatever its kind and position.
TaskStep(t) ==
  \/ QueuedBegin(t) \/ RequestToken(t) \/ CreateRunner(t) \/ StartRunner(t)
  \/ CleanupDestroy(t) \/ Sleep(t) \/ RunStep(t) \/ RollbackStop(t)
  \/ RollbackDestroy(t) \/ CompletedBegin(t) \/ ScanDestroy(t) \/ ScanRemove(t)

\* The program under fair scheduling: the runtime goes on polling every
\* spawned task, and every call a task makes returns.
FairSpec == Spec /\ \A t \in TaskIds : WF_vars(TaskStep(t))

\* The same program started on any part of the provider configuration, down
\* to no provider at all: the provider map holds one mutex per configured
\* provider, and image recipes may name providers that are not configured.
InitRegistry ==
  /\ conn = IdleConn
  /\ tasks = [t \in TaskIds |-> FreeTask]
  /\ containers = [n \in ContainerNames |-> IF n = "foreign" THEN "running" ELSE "undefined"]
  /\ providerLock \in {[p \in S |-> 0] : S \in SUBSET GLOBAL_PROVIDER}
  /\ provOrder = <<>>

RegistrySpec == InitRegistry /\ [][Next]_vars

\* ---------------------------------------------------------- backend calls
\* The provider and handle operations on their own: a caller holding the
\* handles of two containers, found in any state, calls start, stop, get and
\* destroy in any order; its log keeps each call with its result.
MaxCalls == 3

HandleNames == {"foreign", "octoling-acme-widgets-42"}

CallerId == CHOOSE t \in TaskIds : \A u \in TaskIds : t <= u

InitBackend ==
  /\ conn = IdleConn
  /\ tasks = [t \in TaskIds |->
               IF t = CallerId THEN [FreeTask EXCEPT !.kind = "caller"] ELSE FreeTask]
  /\ containers \in [ContainerNames -> {"undefined", "stopped", "running"}]
  /\ \A n \in ContainerNames \ HandleNames : containers[n] = "undefined"
  /\ providerLock = [p \in GLOBAL_PROVIDER |-> 0]
  /\ provOrder = <<>>

\* The call of op on the container named n returned r.
Called(op, n, r) ==
  /\ tasks[CallerId].kind = "caller"
  /\ Len(tasks[CallerId].log) < MaxCalls
  /\ containers' = [containers EXCEPT ![n] = r.st]
  /\ tasks' = [tasks EXCEPT ![CallerId].log = Append(@, Call(op, n, r.res))]
  /\ UNCHANGED <<conn, providerLock, provOrder>>

\* Runner::start on the handle of n.
CallStart(n) ==
  \E daemonize_ok \in BOOLEAN, backend_ok \in BOOLEAN :
    Called("start", n, LxcRunnerStart(containers[n], daemonize_ok, backend_ok))

\* Runner::stop on the handle of n.
CallStop(n) ==
  \E backend_ok \in BOOLEAN :
    Called("stop", n, LxcRunnerStop(containers[n], backend_ok))

\* Provider::get(n).
CallGet(n) == Called("get", n, LxcProviderGet(containers[n]))

\* Provider::destroy(n).
CallDestroy(n) ==
  \E stop_ok \in BOOLEAN, destroy_ok \in BOOLEAN :
    Called("destroy", n, LxcProviderDestroy(containers[n], stop_ok, destroy_ok))

NextBackend ==
  \/ \E n \in HandleNames : CallStart(n)
  \/ \E n \in HandleNames : CallStop(n)
  \/ \E n \in HandleNames : CallGet(n)
  \/ \E n \in HandleNames : CallDestroy(n)

BackendSpec == InitBackend /\ [][NextBackend]_vars


\* ================================================================== claims
\* A step of the model in which the handler takes and answers a request.
ReceiveStep == conn.phase = "idle" /\ conn'.phase = "replying"

\* The header is sha256= followed by SHA256_HEX_SIZE hex digits.
WellFormed(sig) ==
  LET s == SigText(sig) IN
  /\ Len(s) = SHA256_HEX_SIZE + Len(SHA256_PREFIX)
  /\ \A i \in 1..Len(SHA256_PREFIX) : s[i] = SHA256_PREFIX[i]
  /\ \A i \in (Len(SHA256_PREFIX) + 1)..Len(s) : HexVal(s[i]) >= 0

\* The header presents these digest bytes: its hex digits are, up to case,
\* those of the encoding of the bytes.
Presents(sig, bytes) ==
  LET s == SigText(sig) IN
  /\ WellFormed(sig)
  /\ \A k \in 1..SHA256_HEX_SIZE :
       HexVal(s[Len(SHA256_PREFIX) + k]) = HexVal(HexEncode(bytes, HexLower)[k])

WellFormedSig == [sig \in Sigs |-> WellFormed(sig)]

\* The accounts whose secret, as key over the body, gives the digest the
\* header presents.
Matching ==
  [sig \in Sigs, body \in BodyIds |->
     {i \in 1..Len(GLOBAL_GITHUB_CONFIG) :
        Presents(sig, DigestBytes(Hmac(GLOBAL_GITHUB_CONFIG[i].webhook_secret, body)))}]

NewTasks == {t \in TaskIds : tasks[t].kind = "free" /\ tasks'[t].kind # "free"}
OldTasksKept == \A t \in TaskIds : tasks[t].kind # "free" => tasks'[t] = tasks[t]
NoSideEffect == UNCHANGED <<tasks, containers, providerLock, provOrder>>

\* C1: the handler authenticates a request iff some configured account's
\* secret, as HMAC key over the body received, gives the digest presented in
\* the signature header (and then authenticates it as such an account); a
\* request with no such account spawns nothing.
C1_AuthenticatesIffSomeAccountMatches ==
  [][ReceiveStep =>
       /\ (conn'.auth # 0) <=> (Matching[conn'.sig, conn'.body] # {})
       /\ conn'.auth # 0 => conn'.auth \in Matching[conn'.sig, conn'.body]
       /\ Matching[conn'.sig, conn'.body] = {} =>
            /\ conn'.spawned = 0
            /\ conn'.reply \in {"400", "401", "panic"}
            /\ NoSideEffect]_vars

\* A request authenticated by the second account in iteration order, whose
\* event was dispatched to a background task.
C1_Witness ==
  /\ conn.phase = "replying"
  /\ conn.auth = 2
  /\ Matching[conn.sig, conn.body] = {2}
  /\ conn.spawned # 0

\* C2: a request whose well-formed signature matches no account is answered
\* 401 and changes nothing: no task, no token request, no provider operation.
C2_UnmatchedIs401WithoutSideEffect ==
  [][(ReceiveStep /\ WellFormedSig[conn'.sig] /\ Matching[conn'.sig, conn'.body] = {}) =>
       /\ conn'.reply = "401"
       /\ conn'.spawned = 0
       /\ NoSideEffect]_vars

\* A 401 for a well-formed signature over a queued event, given while an
\* earlier task is at work.
C2_Witness ==
  /\ conn.phase = "replying"
  /\ WellFormedSig[conn.sig]
  /\ Matching[conn.sig, conn.body] = {}
  /\ Bodies[conn.body].event.status = "queued"
  /\ conn.reply = "401"
  /\ \E t \in TaskIds : tasks[t].pc = "setup"

\* C3 (as claimed): every request with a malformed signature header (wrong
\* length, no sha256= prefix, or a non-hex digit) is answered 400 and no
\* HMAC is computed for it.
C3_MalformedIs400 ==
  (conn.phase = "replying" /\ ~WellFormedSig[conn.sig]) =>
    (conn.reply = "400" /\ conn.hmacs = 0)

\* The body of an authenticated request is valid UTF-8.
Utf8 == Bodies[conn'.body].utf8
Parsed == Bodies[conn'.body].event # NoEvent

\* C4: for an authenticated request, a queued workflow_job event spawns
\* exactly one provision task and is answered 200, a completed one spawns
\* exactly one teardown task and is answered 200, any other status and any
\* other event type is answered 200 and spawns nothing.
C4_DispatchByStatus ==
  [][(ReceiveStep /\ Matching[conn'.sig, conn'.body] # {} /\ Utf8
        /\ (conn'.etype = "workflow_job" => Parsed)) =>
       LET status == Bodies[conn'.body].event.status
           kind == IF conn'.etype # "workflow_job" THEN "none"
                   ELSE IF status = "queued" THEN "provision"
                   ELSE IF status = "completed" THEN "teardown"
                   ELSE "none"
       IN
       /\ conn'.reply = "200"
       /\ OldTasksKept
       /\ UNCHANGED <<containers, providerLock, provOrder>>
       /\ IF kind = "none" THEN NewTasks = {}
          ELSE /\ Cardinality(NewTasks) = 1
               /\ \A t \in NewTasks :
                    tasks'[t] = NewTask(kind, conn'.body) /\ conn'.spawned = t]_vars

\* The 200 for a queued event with its one new provision task.
C4_Witness ==
  /\ conn.phase = "replying"
  /\ conn.etype = "workflow_job"
  /\ Bodies[conn.body].event.status = "queued"
  /\ conn.reply = "200"
  /\ conn.spawned # 0
  /\ tasks[conn.spawned].kind = "provision"
  /\ tasks[conn.spawned].pc = "begin"
  /\ Cardinality({t \in TaskIds : tasks[t].kind # "free"}) = 1

\* C5: for a request whose digest matches, bytes that are not UTF-8 are
\* answered 500 and a workflow_job body that does not parse is answered 400,
\* both without a task or a provider operation.
C5_Utf8AndParseErrors ==
  [][(ReceiveStep /\ Matching[conn'.sig, conn'.body] # {}) =>
       /\ ~Utf8 => (conn'.reply = "500" /\ conn'.spawned = 0 /\ NoSideEffect)
       /\ (Utf8 /\ conn'.etype = "workflow_job" /\ ~Parsed) =>
            (conn'.reply = "400" /\ conn'.spawned = 0 /\ NoSideEffect)]_vars

\* The 500 for bytes that are not UTF-8 under a matching digest.
C5_Witness ==
  /\ conn.phase = "replying"
  /\ Matching[conn.sig, conn.body] # {}
  /\ ~Bodies[conn.body].utf8
  /\ conn.reply = "500"

ReplyPendingForProvision ==
  /\ conn.phase = "replying"
  /\ conn.spawned # 0
  /\ tasks[conn.spawned].kind = "provision"

\* C6 (as claimed): the reply to a queued event is sent before its
\* provisioning task completes, and is 200.
C6_ReplySentBeforeTaskCompletes ==
  ReplyPendingForProvision =>
    (conn.reply = "200" /\ tasks[conn.spawned].pc # "done")

\* C6 (amended): the reply to a queued event is 200 from the moment the task
\* is spawned and stays 200 whatever the task does or returns, also when the
\* task completes before the reply is sent.
C6_ReplyIs200WhateverTheTask ==
  ReplyPendingForProvision => conn.reply = "200"

\* A reply still to be sent while the task has ended in a controller error.
C6_Witness ==
  /\ ReplyPendingForProvision
  /\ tasks[conn.spawned].pc = "done"
  /\ tasks[conn.spawned].result = "InstallationFailed"
  /\ conn.reply = "200"


ImageIds == 1..Len(GLOBAL_IMAGE_CONFIG)
Matches(r, label) == Contains(GLOBAL_IMAGE_CONFIG[r].labels, label)

\* r is the first configured recipe that matches the first of the labels
\* that any recipe matches.
ChosenBy(labels, r) ==
  \E j \in 1..Len(labels) :
    /\ Matches(r, labels[j])
    /\ \A q \in ImageIds : q < r => ~Matches(q, labels[j])
    /\ \A i \in 1..(j - 1) : \A q \in ImageIds : ~Matches(q, labels[i])

Calls(t, op) == Cardinality({i \in 1..Len(tasks[t].log) : tasks[t].log[i].op = op})
Provisions == {t \in TaskIds : tasks[t].kind = "provision"}

\* C7: the recipe of a provision is the first configured recipe matching the
\* first label of the event, in order, that any recipe matches (labels
\* self-hosted, fast, gpu with recipes for fast and gpu: the recipe for
\* fast), and a queued event creates at most one runner, on that recipe's
\* provider.
C7_FirstMatchedLabelSelectsRecipe ==
  \A t \in Provisions :
    tasks[t].img # 0 =>
      /\ ChosenBy(Event(t).labels, tasks[t].img)
      /\ Event(t).labels = <<"self-hosted", "fast", "gpu">> => Image(t).id = "img-linux"
      /\ Calls(t, "token") <= 1
      /\ Calls(t, "create") <= 1
      /\ \A i \in 1..Len(tasks[t].log) :
           tasks[t].log[i].op = "create" => tasks[t].log[i].prov = Image(t).provider_id

\* The event with labels self-hosted, fast, gpu has created its runner from
\* the recipe img-linux, which is configured after the recipe for gpu.
C7_Witness ==
  \E t \in Provisions :
    /\ Event(t).labels = <<"self-hosted", "fast", "gpu">>
    /\ tasks[t].img # 0
    /\ Image(t).id = "img-linux"
    /\ get_image_config_by_label("gpu") < tasks[t].img
    /\ \E i \in 1..Len(tasks[t].log) : tasks[t].log[i] = Call("create", "lxc1", "Ok")
    /\ tasks[t].pc = "done" /\ tasks[t].result = "Ok"

NoAccount(ev) ==
  \A i \in 1..Len(GLOBAL_GITHUB_CONFIG) :
    ~(GLOBAL_GITHUB_CONFIG[i].owner = ev.owner
      /\ GLOBAL_GITHUB_CONFIG[i].repository = ev.repo)

NoLabelMatched(ev) ==
  \A j \in 1..Len(ev.labels) : \A q \in ImageIds : ~Matches(q, ev.labels[j])

CreatedBy(u, name) ==
  /\ u \in Provisions
  /\ RunnerId(u) = name
  /\ \E i \in 1..Len(tasks[u].log) :
       tasks[u].log[i].op = "create" /\ tasks[u].log[i].res = "Ok"

\* C8: a queued event of no configured account, or with no label (none at
\* all, or none that a recipe matches), requests no token and calls no
\* provider: its task ends unhandled, and a container of its runner id, if
\* any, was created by another task.
C8_UnhandleableEventDoesNothing ==
  \A t \in Provisions :
    (NoAccount(Event(t)) \/ NoLabelMatched(Event(t))) =>
      /\ tasks[t].pc \in {"begin", "done"}
      /\ tasks[t].pc = "done" => tasks[t].result = "Unhandled"
      /\ tasks[t].log = <<>>
      /\ tasks[t].token = ""
      /\ ~tasks[t].ran
      /\ containers[RunnerId(t)] # "undefined" =>
           \E u \in TaskIds \ {t} : CreatedBy(u, RunnerId(t))

\* Two tasks ended unhandled: one for an unknown repository, one for an
\* event without labels.
C8_Witness ==
  \E t, u \in Provisions :
    /\ NoAccount(Event(t)) /\ Event(t).labels # <<>>
    /\ ~NoAccount(Event(u)) /\ Event(u).labels = <<>>
    /\ tasks[t].pc = "done" /\ tasks[u].pc = "done"
    /\ containers[RunnerId(t)] = "undefined"

TokenFailed(t) ==
  \E i \in 1..Len(tasks[t].log) : tasks[t].log[i] = Call("token", "-", "Failed")

TokenPrecedesCreate(t) ==
  \A i \in 1..Len(tasks[t].log) :
    tasks[t].log[i].op = "create" =>
      \E k \in 1..(i - 1) : tasks[t].log[k] = Call("token", "-", "Ok")

\* C9 (as claimed): the token request completes before create is invoked,
\* and when it fails the provision invokes no create, ends with
\* TokenRequestFailed and no container of its runner id exists afterwards.
C9_TokenFailureLeavesNoContainer ==
  \A t \in Provisions :
    /\ TokenPrecedesCreate(t)
    /\ TokenFailed(t) =>
         /\ tasks[t].pc = "done"
         /\ tasks[t].result = "TokenRequestFailed"
         /\ Calls(t, "create") = 0
         /\ containers[RunnerId(t)] = "undefined"

\* C9 (amended): the token request completes before create is invoked, and
\* when it fails the provision calls no provider at all and ends with
\* TokenRequestFailed; a container of its runner id exists afterwards only
\* if another provision created it.
C9_TokenFailureCreatesNoContainer ==
  \A t \in Provisions :
    /\ TokenPrecedesCreate(t)
    /\ TokenFailed(t) =>
         /\ tasks[t].pc = "done"
         /\ tasks[t].result = "TokenRequestFailed"
         /\ tasks[t].log = <<Call("token", "-", "Failed")>>
         /\ ~tasks[t].ran
         /\ containers[RunnerId(t)] # "undefined" =>
              \E u \in TaskIds \ {t} : CreatedBy(u, RunnerId(t))

\* A provision that ended with TokenRequestFailed while the container of an
\* earlier delivery of the same job exists.
C9_Witness ==
  \E t, u \in Provisions :
    /\ t # u
    /\ TokenFailed(t) /\ tasks[t].result = "TokenRequestFailed"
    /\ CreatedBy(u, RunnerId(t))
    /\ containers[RunnerId(t)] = "running"

StartFailed(t) ==
  \E i \in 1..Len(tasks[t].log) :
    tasks[t].log[i].op = "start" /\ tasks[t].log[i].res # "Ok"

\* C10: after a successful create and a failed start, the provision runs no
\* bootstrap command, calls destroy on the provider it created on before it
\* returns (still holding that provider's lock), and returns
\* Provider(RunnerStartFailed) whatever the destroy returned.
C10_StartFailureDestroysAndSurfaces ==
  \A t \in Provisions :
    StartFailed(t) =>
      /\ ~tasks[t].ran
      /\ tasks[t].pc \in {"cleanup", "done"}
      /\ Len(tasks[t].log) >= 3
      /\ tasks[t].log[2].op = "create" /\ tasks[t].log[2].res = "Ok"
      /\ tasks[t].log[3] = Call("start", "-", "RunnerStartFailed")
      /\ tasks[t].pc = "cleanup" =>
           /\ Len(tasks[t].log) = 3
           /\ providerLock[tasks[t].log[2].prov] = t
      /\ tasks[t].pc = "done" =>
           /\ Len(tasks[t].log) = 4
           /\ tasks[t].log[4].op = "destroy"
           /\ tasks[t].log[4].prov = tasks[t].log[2].prov
           /\ providerLock[tasks[t].log[2].prov] # t
           /\ tasks[t].result = "Provider(RunnerStartFailed)"

\* A provision that returned the start error although its cleanup destroy
\* failed and left the container behind.
C10_Witness ==
  \E t \in Provisions :
    /\ StartFailed(t)
    /\ tasks[t].pc = "done"
    /\ tasks[t].log[4] = Call("destroy", "lxc1", "RunnerDestructionFailed")
    /\ tasks[t].result = "Provider(RunnerStartFailed)"
    /\ containers[RunnerId(t)] = "stopped"


ExitedNonZero(t) == tasks[t].runFail = "NonZero"
Rollback(t) == SubSeq(tasks[t].log, Len(tasks[t].log) - 1, Len(tasks[t].log))

\* C11: when a bootstrap command exits with a non-zero code, the provision
\* runs no further command, calls stop on the handle and then destroy on the
\* recipe's provider, in that order, and returns InstallationFailed whatever
\* the code and whatever stop and destroy returned.
C11_NonZeroExitRollsBack ==
  \A t \in Provisions :
    ExitedNonZero(t) =>
      /\ tasks[t].pc \in {"stop", "destroy", "done"}
      /\ tasks[t].err = "InstallationFailed"
      /\ tasks[t].pc = "stop" => Calls(t, "stop") = 0 /\ Calls(t, "destroy") = 0
      /\ tasks[t].pc = "destroy" =>
           /\ Calls(t, "stop") = 1 /\ Calls(t, "destroy") = 0
           /\ tasks[t].log[Len(tasks[t].log)].op = "stop"
      /\ tasks[t].pc = "done" =>
           /\ Calls(t, "stop") = 1 /\ Calls(t, "destroy") = 1
           /\ Rollback(t)[1].op = "stop"
           /\ Rollback(t)[2].op = "destroy"
           /\ Rollback(t)[2].prov = Image(t).provider_id
           /\ tasks[t].result = "InstallationFailed"

\* A provision that returned InstallationFailed after a non-zero exit
\* although both the stop and the destroy of its rollback failed.
C11_Witness ==
  \E t \in Provisions :
    /\ ExitedNonZero(t)
    /\ tasks[t].pc = "done"
    /\ Rollback(t)[1] = Call("stop", "-", "RunnerStopFailed")
    /\ Rollback(t)[2].op = "destroy" /\ Rollback(t)[2].res # "Ok"
    /\ tasks[t].result = "InstallationFailed"


RunRefused(t) == tasks[t].runFail = "RunnerRunFailed"

RolledBack(t) ==
  /\ Calls(t, "stop") = 1 /\ Calls(t, "destroy") = 1
  /\ Rollback(t)[1].op = "stop"
  /\ Rollback(t)[2].op = "destroy"
  /\ Rollback(t)[2].prov = Image(t).provider_id

\* C12 (as claimed): when a bootstrap command fails with the backend error
\* RunnerRunFailed, the provision rolls back (stop, then destroy) and
\* returns InstallationFailed.
C12_BackendErrorIsInstallationFailed ==
  \A t \in Provisions :
    (RunRefused(t) /\ tasks[t].pc = "done") =>
      RolledBack(t) /\ tasks[t].result = "InstallationFailed"

\* C12 (amended): when a bootstrap command fails with the backend error
\* RunnerRunFailed, the provision runs no further command, rolls back
\* (stop, then destroy on the recipe's provider) and returns the backend
\* error, Provider(RunnerRunFailed).
C12_BackendErrorRollsBackAndSurfaces ==
  \A t \in Provisions :
    RunRefused(t) =>
      /\ tasks[t].pc \in {"stop", "destroy", "done"}
      /\ tasks[t].err = "Provider(RunnerRunFailed)"
      /\ tasks[t].pc = "stop" => Calls(t, "stop") = 0 /\ Calls(t, "destroy") = 0
      /\ tasks[t].pc = "destroy" => Calls(t, "stop") = 1 /\ Calls(t, "destroy") = 0
      /\ tasks[t].pc = "done" =>
           RolledBack(t) /\ tasks[t].result = "Provider(RunnerRunFailed)"

\* A provision whose command could not be launched in its running container
\* and that returned Provider(RunnerRunFailed) after stop and destroy.
C12_Witness ==
  \E t \in Provisions :
    /\ RunRefused(t)
    /\ tasks[t].pc = "done"
    /\ Rollback(t)[1] = Call("stop", "-", "Ok")
    /\ Rollback(t)[2] = Call("destroy", Image(t).provider_id, "Ok")
    /\ tasks[t].result = "Provider(RunnerRunFailed)"


Created(t) ==
  \E i \in 1..Len(tasks[t].log) :
    tasks[t].log[i].op = "create" /\ tasks[t].log[i].res = "Ok"

Failed(t) == tasks[t].pc = "done" /\ tasks[t].result # "Ok"

DestroyedAfterCreate(t) ==
  \E i, k \in 1..Len(tasks[t].log) :
    /\ i < k
    /\ tasks[t].log[i].op = "create" /\ tasks[t].log[i].res = "Ok"
    /\ tasks[t].log[k].op = "destroy"
    /\ tasks[t].log[k].prov = tasks[t].log[i].prov

\* C13: a provision that has ended in failure after its create succeeded
\* (failed start, or failed bootstrap command) has called destroy on the
\* provider it created on, after the create.
C13_FailureAfterCreateDestroys ==
  \A t \in Provisions : (Created(t) /\ Failed(t)) => DestroyedAfterCreate(t)

\* Two provisions ended in failure after create, one at start and one in
\* the bootstrap after a failed stop, each with its destroy.
C13_Witness ==
  \E t, u \in Provisions :
    /\ Created(t) /\ Failed(t) /\ StartFailed(t)
    /\ Created(u) /\ Failed(u) /\ tasks[u].ran
    /\ Rollback(u)[1] = Call("stop", "-", "RunnerStopFailed")
    /\ DestroyedAfterCreate(t) /\ DestroyedAfterCreate(u)


\* The position of the registration command in the bootstrap sequence.
ConfigStep ==
  CHOOSE i \in 1..Len(BootstrapArgv("", "", "", "")) :
    Contains(BootstrapArgv("", "", "", "")[i], "config.sh")

ArgAfter(argv, flag) == argv[(CHOOSE i \in 1..Len(argv) : argv[i] = flag) + 1]

Succeeded(t) == tasks[t].pc = "done" /\ tasks[t].result = "Ok"

RegistersItself(t, argv) ==
  /\ Contains(argv, "config.sh") /\ Contains(argv, "--ephemeral")
  /\ ArgAfter(argv, "--name") =
       "octoling-" \o Event(t).owner \o "-" \o Event(t).repo \o "-" \o ToString(Event(t).id)
  /\ ArgAfter(argv, "--url") =
       "https://github.com/" \o Account(t).owner \o "/" \o Account(t).repository \o "/"
  /\ Account(t).owner = Event(t).owner /\ Account(t).repository = Event(t).repo
  /\ ArgAfter(argv, "--token") = tasks[t].token
  /\ Calls(t, "token") = 1
  /\ \A u \in Provisions \ {t} : tasks[u].token # tasks[t].token

RegistrationsOf(t) ==
  /\ Len(tasks[t].config) <= 1
  /\ Succeeded(t) => Len(tasks[t].config) = 1 /\ RegistersItself(t, tasks[t].config[1])
  /\ (~tasks[t].ran \/ (tasks[t].pc = "setup" /\ tasks[t].step <= ConfigStep)) =>
       tasks[t].config = <<>>

\* C14: a successful provision has run exactly one config.sh --ephemeral
\* command, with --name octoling-<owner>-<repo>-<job_id> of its event, --url
\* the repository url of its account and --token the token its own request
\* returned; the command is run only at its step of the bootstrap, so a
\* provision that fails before that step has run none.
C14_OneRegistrationPerSuccess ==
  /\ [](\A t \in Provisions : RegistrationsOf(t))
  /\ [][\A t \in TaskIds :
          tasks'[t].config # tasks[t].config =>
            tasks[t].pc = "setup" /\ tasks[t].step = ConfigStep]_vars

\* Two deliveries of the same job: one provisioned and registered once under
\* the derived name, the other refused at create without any registration.
C14_Witness ==
  \E t, u \in Provisions :
    /\ Succeeded(t) /\ Len(tasks[t].config) = 1
    /\ ArgAfter(tasks[t].config[1], "--name") = "octoling-acme-widgets-42"
    /\ ArgAfter(tasks[t].config[1], "--token") = "token-" \o ToString(t)
    /\ RunnerId(u) = RunnerId(t)
    /\ Failed(u) /\ tasks[u].token # "" /\ tasks[u].config = <<>>


\* C15: the runner is registered with --labels octoling,<first label of the
\* selected recipe>, not the job label that selected the recipe: the recipe
\* with labels linux-x64, fast selected by the job label fast registers with
\* octoling,linux-x64.
C15_RegisteredWithPrimaryLabel ==
  \A t \in Provisions :
    \A i \in 1..Len(tasks[t].config) :
      /\ ArgAfter(tasks[t].config[i], "--labels") =
           "octoling," \o GLOBAL_IMAGE_CONFIG[tasks[t].img].labels[1]
      /\ Image(t).labels = <<"linux-x64", "fast">> =>
           ArgAfter(tasks[t].config[i], "--labels") = "octoling,linux-x64"

\* The recipe with labels linux-x64, fast was selected by the job label
\* fast, which is not its first label, and registered as octoling,linux-x64.
C15_Witness ==
  \E t \in Provisions :
    /\ Succeeded(t)
    /\ Image(t).labels = <<"linux-x64", "fast">>
    /\ ~Contains(Event(t).labels, "linux-x64")
    /\ MatchedLabel(t) = "fast"
    /\ ArgAfter(tasks[t].config[1], "--labels") = "octoling,linux-x64"


Teardowns == {t \in TaskIds : tasks[t].kind = "teardown"}
Named(t) == Event(t).runner_name # NoName
Returned(t) == Len(tasks[t].log)

\* C16: the teardown of a runner name calls destroy on the providers in
\* their iteration order and goes on only past RunnerNotFound: it returns
\* success at the first success, the error of the first provider that fails
\* otherwise, and RunnerNotFound when every provider reported it, also when
\* there is no provider at all.
C16_ScanStopsAtFirstVerdict ==
  \A t \in Teardowns :
    (Named(t) /\ tasks[t].pc # "begin") =>
      /\ Returned(t) <= Len(provOrder)
      /\ \A i \in 1..Returned(t) :
           /\ tasks[t].log[i].op = "destroy"
           /\ tasks[t].log[i].prov = provOrder[i]
           /\ i < Returned(t) => tasks[t].log[i].res = "RunnerNotFound"
      /\ tasks[t].pc # "done" =>
           /\ tasks[t].step = Returned(t) + 1
           /\ \A i \in 1..Returned(t) : tasks[t].log[i].res = "RunnerNotFound"
      /\ tasks[t].pc = "done" =>
           IF Returned(t) = 0
             THEN provOrder = <<>> /\ tasks[t].result = "Provider(RunnerNotFound)"
           ELSE LET last == tasks[t].log[Returned(t)].res IN
             /\ last = "Ok" => tasks[t].result = "Ok"
             /\ last = "RunnerNotFound" =>
                  Returned(t) = Len(provOrder)
                  /\ tasks[t].result = "Provider(RunnerNotFound)"
             /\ last \notin {"Ok", "RunnerNotFound"} =>
                  tasks[t].result = "Provider(" \o last \o ")"

\* A teardown with no provider configured: no destroy call, RunnerNotFound.
C16_Witness ==
  \E t \in Teardowns :
    /\ Named(t) /\ tasks[t].pc = "done"
    /\ DOMAIN providerLock = {}
    /\ tasks[t].log = <<>>
    /\ tasks[t].result = "Provider(RunnerNotFound)"


\* The providers on which teardown t has invoked destroy, returned or not.
Invoked(t) ==
  {tasks[t].log[i].prov : i \in 1..Returned(t)}
    \cup (IF tasks[t].pc = "remove" THEN {provOrder[tasks[t].step]} ELSE {})

Verdicts(t) == {i \in 1..Returned(t) : tasks[t].log[i].res # "RunnerNotFound"}

\* C17 (as claimed): a completed event with a runner name has destroy
\* invoked on exactly one provider.
C17_DestroyInvokedOnExactlyOneProvider ==
  \A t \in Teardowns :
    (Named(t) /\ tasks[t].pc = "done") => Cardinality(Invoked(t)) = 1

\* C17 (amended): for a completed event with a runner name, destroy is
\* invoked once on each provider of the iteration order up to and including
\* the first that reports anything other than RunnerNotFound, and on no
\* provider after that one; at most one provider reports anything else than
\* RunnerNotFound, and when none does, destroy was invoked on all of them.
C17_DestroyInvokedUpToFirstVerdict ==
  \A t \in Teardowns :
    (Named(t) /\ tasks[t].pc # "begin") =>
      /\ Invoked(t) = {provOrder[i] : i \in 1..Cardinality(Invoked(t))}
      /\ Cardinality({tasks[t].log[i].prov : i \in 1..Returned(t)}) = Returned(t)
      /\ Cardinality(Verdicts(t)) <= 1
      /\ \A i \in Verdicts(t) : i = Returned(t) /\ tasks[t].pc = "done"
      /\ (tasks[t].pc = "done" /\ Verdicts(t) = {}) => Invoked(t) = DOMAIN providerLock

\* Destroy was invoked on both providers: the first reported RunnerNotFound,
\* the second destroyed the container that was created in between.
C17_Witness ==
  \E t \in Teardowns :
    /\ Named(t) /\ tasks[t].pc = "done"
    /\ Returned(t) = 2
    /\ tasks[t].log[1].res = "RunnerNotFound"
    /\ tasks[t].log[2].res = "Ok"
    /\ tasks[t].result = "Ok"
    /\ Cardinality(Invoked(t)) = 2


\* C18: a completed event without runner name invokes no destroy and no other
\* provider operation: its task ends at once, unhandled, without a call and
\* without taking a provider's lock.
C18_NoRunnerNameNoDestroy ==
  /\ [](\A t \in Teardowns :
          ~Named(t) =>
            /\ tasks[t].pc \in {"begin", "done"}
            /\ tasks[t].log = <<>>
            /\ tasks[t].pc = "done" => tasks[t].result = "Unhandled"
            /\ \A p \in DOMAIN providerLock : providerLock[p] # t)
  /\ [][\A t \in Teardowns :
          (~Named(t) /\ tasks'[t] # tasks[t]) =>
            UNCHANGED <<containers, providerLock, provOrder>>]_vars

\* The teardown of an event without runner name has ended while the
\* container of the same job is still running.
C18_Witness ==
  \E t \in Teardowns :
    /\ ~Named(t)
    /\ tasks[t].pc = "done" /\ tasks[t].result = "Unhandled"
    /\ containers[get_runner_id_by_job_event(Event(t))] = "running"


\* A step in which provision t executes a run (RunStep) or a stop
\* (RollbackStop) on its container.
RunsOrStops(t) ==
  /\ tasks[t].kind = "provision"
  /\ tasks[t].pc \in {"setup", "stop"}
  /\ tasks'[t] # tasks[t]

\* Teardown u is inside provider.destroy of the container named name: it
\* holds the lock of the provider it is scanning, between stop and removal.
Destroying(u, name) ==
  /\ tasks[u].kind = "teardown"
  /\ tasks[u].pc = "remove"
  /\ Event(u).runner_name = name
  /\ providerLock[provOrder[tasks[u].step]] = u

\* C19 (as claimed): the operations on one runner id are serialised by the
\* lock of the provider that owns the container, so that no run or stop of
\* the provisioning task is executed while a teardown task is inside its
\* destroy of the same container, and whoever holds the lock of the provider
\* the container was created on while no other task operates on it.
C19_OperationsSerialisedByProviderLock ==
  [][\A t \in TaskIds :
       RunsOrStops(t) =>
         /\ \A u \in TaskIds \ {t} : ~Destroying(u, RunnerId(t))
         /\ providerLock[Image(t).provider_id] \in {0, t}]_vars


\* A step in which provision t executes provider.create.
Creates(t) ==
  /\ tasks[t].kind = "provision"
  /\ tasks[t].pc = "create"
  /\ tasks'[t] # tasks[t]
  /\ tasks'[t].result # "ProviderNotFound"

CreateRefused(t) ==
  \E i \in 1..Len(tasks[t].log) :
    tasks[t].log[i].op = "create" /\ tasks[t].log[i].res = "RunnerCreationFailed"

\* C20: a create for a runner id whose container is already defined fails
\* with RunnerCreationFailed and leaves every container as it was; the
\* provision ends there, so that a provision refused at create has called
\* nothing else on a provider: no start, run, stop or destroy.
C20_CreateRefusesDefinedContainer ==
  /\ [][\A t \in TaskIds :
          (Creates(t) /\ containers[RunnerId(t)] # "undefined") =>
            /\ containers' = containers
            /\ providerLock' = providerLock
            /\ tasks'[t].pc = "done"
            /\ tasks'[t].result = "Provider(RunnerCreationFailed)"
            /\ tasks'[t].log = Append(tasks[t].log,
                 Call("create", Image(t).provider_id, "RunnerCreationFailed"))]_vars
  /\ [](\A t \in Provisions :
          CreateRefused(t) =>
            /\ tasks[t].pc = "done"
            /\ tasks[t].result = "Provider(RunnerCreationFailed)"
            /\ Len(tasks[t].log) = 2
            /\ ~tasks[t].ran)

\* The second delivery of a job was refused at create while the container of
\* the first, provisioned with success, keeps running.
C20_Witness ==
  \E t, u \in Provisions :
    /\ t # u /\ RunnerId(t) = RunnerId(u)
    /\ Succeeded(t)
    /\ CreateRefused(u)
    /\ tasks[u].result = "Provider(RunnerCreationFailed)"
    /\ containers[RunnerId(t)] = "running"


\* A step of the caller: its log grows by the call just returned.
CallReturned == Len(tasks'[CallerId].log) = Len(tasks[CallerId].log) + 1
ThisCall == tasks'[CallerId].log[Len(tasks'[CallerId].log)]
CallBefore == tasks[CallerId].log[Len(tasks[CallerId].log)]

\* The same operation on the same container as the call before it.
Repeats ==
  /\ Len(tasks[CallerId].log) >= 1
  /\ ThisCall.op = CallBefore.op /\ ThisCall.prov = CallBefore.prov

OthersUntouched(n) == \A m \in ContainerNames \ {n} : containers'[m] = containers[m]

\* C22: destroy of a runner id without defined container fails with
\* RunnerNotFound and changes nothing; on a defined container it removes the
\* definition only after the container is stopped, and returns
\* RunnerStopFailed with the container still defined and running when the
\* stop fails; after a successful destroy the container is undefined, and
\* get and destroy on an undefined container both fail with RunnerNotFound.
C22_DestroyStopsThenRemoves ==
  [][CallReturned =>
       LET n == ThisCall.prov
           res == ThisCall.res
       IN
       /\ (ThisCall.op \in {"get", "destroy"} /\ containers[n] = "undefined") =>
            res = "RunnerNotFound" /\ containers' = containers
       /\ ThisCall.op = "get" => containers' = containers
       /\ (ThisCall.op = "destroy" /\ containers[n] # "undefined") =>
            /\ res \in {"Ok", "RunnerStopFailed", "RunnerDestructionFailed"}
            /\ OthersUntouched(n)
            /\ res = "Ok" => containers'[n] = "undefined"
            /\ res = "RunnerStopFailed" =>
                 containers[n] = "running" /\ containers'[n] = "running"
            /\ res = "RunnerDestructionFailed" => containers'[n] = "stopped"
       /\ (Len(tasks[CallerId].log) >= 1 /\ CallBefore = Call("destroy", n, "Ok")
           /\ ThisCall.op \in {"get", "destroy"}) =>
            res = "RunnerNotFound"]_vars

\* A container was destroyed with success beside another one that keeps
\* running; get and then destroy of its id both failed with RunnerNotFound.
C22_Witness ==
  \E n \in HandleNames :
    /\ tasks[CallerId].log = <<Call("destroy", n, "Ok"),
                               Call("get", n, "RunnerNotFound"),
                               Call("destroy", n, "RunnerNotFound")>>
    /\ containers[n] = "undefined"
    /\ \E m \in HandleNames \ {n} : containers[m] = "running"


\* Task w has destroyed, with success, the container named name.
DestroyedBy(w, name) ==
  /\ \E i \in 1..Len(tasks[w].log) :
       tasks[w].log[i].op = "destroy" /\ tasks[w].log[i].res = "Ok"
  /\ \/ tasks[w].kind = "provision" /\ RunnerId(w) = name
     \/ tasks[w].kind = "teardown" /\ Event(w).runner_name = name

\* C23: there is never more than one container definition for a runner id,
\* whatever the provider and the interleaving: a create succeeds only when
\* no container of that id is defined, on any provider, and of two
\* provisions of the same runner id that both created their container, the
\* second created it after the container of the first was destroyed.
C23_OneDefinitionPerRunnerId ==
  /\ [][\A t \in TaskIds :
          (Creates(t) /\ tasks'[t].pc = "start") =>
            /\ containers[RunnerId(t)] = "undefined"
            /\ containers'[RunnerId(t)] = "stopped"
            /\ \A u \in Provisions \ {t} :
                 (RunnerId(u) = RunnerId(t) /\ Created(u)) =>
                   \E w \in TaskIds : DestroyedBy(w, RunnerId(t))]_vars
  /\ [](\A t, u \in Provisions :
          (t # u /\ RunnerId(t) = RunnerId(u) /\ Created(t) /\ Created(u)) =>
            \E w \in TaskIds : DestroyedBy(w, RunnerId(t)))

\* Two deliveries of the same job provisioned concurrently: both requested
\* their token before any create; one created the container, the other was
\* refused while that container exists.
C23_Witness ==
  \E t, u \in Provisions :
    /\ t # u /\ RunnerId(t) = RunnerId(u)
    /\ Created(t) /\ tasks[t].pc = "setup"
    /\ CreateRefused(u)
    /\ tasks[u].token # "" /\ tasks[t].token # ""
    /\ containers[RunnerId(t)] = "running"


\* Task t has started its container.
Started(t) ==
  \E i \in 1..Len(tasks[t].log) :
    tasks[t].log[i].op = "start" /\ tasks[t].log[i].res = "Ok"

NSteps == Len(BootstrapArgv("", "", "", ""))

\* A step in which task t executes one bootstrap command.
Runs(t) ==
  /\ tasks[t].kind = "provision"
  /\ tasks[t].pc = "setup"
  /\ tasks'[t] # tasks[t]

\* C24: the bootstrap is serial and stops at the first failure: the first
\* command runs only after a successful start, command N only as the next
\* after command N-1 returned 0, in the order of the 14 commands (the
\* registration being the 12th), and once a command exited non-zero or
\* failed in the backend the provision runs no command again.
C24_BootstrapSerialStopsAtFirstFailure ==
  /\ NSteps = 14 /\ ConfigStep = 12
  /\ [](\A t \in Provisions :
          /\ tasks[t].pc = "setup" =>
               /\ Started(t)
               /\ tasks[t].step \in 1..NSteps
               /\ tasks[t].ran = (tasks[t].step > 1)
               /\ Len(tasks[t].config) = (IF tasks[t].step > ConfigStep THEN 1 ELSE 0)
          /\ tasks[t].runFail # "" => tasks[t].pc \in {"stop", "destroy", "done"}
          /\ tasks[t].ran => Started(t))
  /\ [][\A t \in TaskIds :
          /\ (tasks'[t].kind = "provision" /\ tasks'[t].pc = "setup"
                /\ tasks[t].pc # "setup") =>
               tasks[t].pc = "sleep" /\ tasks'[t].step = 1 /\ ~tasks[t].ran
          /\ Runs(t) =>
               \/ /\ tasks'[t].runFail = ""
                  /\ tasks[t].step < NSteps
                  /\ tasks'[t].pc = "setup"
                  /\ tasks'[t].step = tasks[t].step + 1
               \/ /\ tasks'[t].runFail = ""
                  /\ tasks[t].step = NSteps
                  /\ Succeeded(t)'
               \/ /\ tasks'[t].runFail # ""
                  /\ tasks'[t].pc = "stop"
                  /\ tasks'[t].err # "Ok"]_vars

\* One provision about to run its last command, the 13 before having
\* returned 0, while another was stopped by a command that exited non-zero.
C24_Witness ==
  \E t, u \in Provisions :
    /\ tasks[t].pc = "setup" /\ tasks[t].step = NSteps
    /\ ExitedNonZero(u) /\ tasks[u].pc = "stop"


\* Task t is in the settling delay or in the bootstrap of its runner.
Settling(t) ==
  /\ tasks[t].kind = "provision"
  /\ tasks[t].pc \in {"sleep", "setup"}

\* Task u is about to call create, start or destroy on provider p.
Wants(u, p) ==
  \/ /\ tasks[u].kind = "provision" /\ tasks[u].pc \in {"create", "start", "cleanup", "destroy"}
     /\ tasks[u].img # 0 /\ Image(u).provider_id = p
  \/ /\ tasks[u].kind = "teardown" /\ tasks[u].pc \in {"scan", "remove"}
     /\ provOrder[tasks[u].step] = p

\* C25: a provision in its settling delay or its bootstrap holds no provider
\* lock, so that another task about to create, start or destroy on the same
\* provider can take its step at once unless a third task holds the lock.
C25_NoProviderLockWhileBootstrapping ==
  \A t \in TaskIds :
    Settling(t) =>
      /\ \A p \in DOMAIN providerLock : providerLock[p] # t
      /\ \A u \in TaskIds \ {t} :
           (Wants(u, Image(t).provider_id)
              /\ providerLock[Image(t).provider_id] \in {0, u}) =>
             ENABLED \/ CreateRunner(u) \/ StartRunner(u) \/ CleanupDestroy(u)
                     \/ RollbackDestroy(u) \/ ScanDestroy(u) \/ ScanRemove(u)

\* A provision in its bootstrap on a provider while a teardown, having taken
\* the lock of that provider, is destroying another container.
C25_Witness ==
  \E t \in Provisions, u \in Teardowns :
    /\ tasks[t].pc = "setup" /\ tasks[t].step > 1
    /\ Destroying(u, Event(u).runner_name)
    /\ Event(u).runner_name # RunnerId(t)
    /\ providerLock[Image(t).provider_id] = u


\* Task t holds the lock of some provider.
HoldsProvider(t) == \E p \in DOMAIN providerLock : providerLock[p] = t

\* Task t holds the lock of its runner handle: it is inside setup_runner.
\* (The lock taken for the rollback's stop is released within that step.)
HoldsRunner(t) == tasks[t].kind = "provision" /\ tasks[t].pc = "setup"

Begun(t) == tasks[t].kind # "free"
Ended(t) == tasks[t].pc = "done"

\* C26: no task holds a provider's lock and the lock of a runner handle
\* together, no task holds the locks of two providers, and a task holding a
\* lock waits for nothing (its next step is enabled); so, under fair
\* scheduling and with every backend call returning, every provisioning or
\* teardown task that begins eventually ends.
C26_EveryTaskEnds ==
  /\ [](\A t \in TaskIds :
          /\ ~(HoldsProvider(t) /\ HoldsRunner(t))
          /\ Cardinality({p \in DOMAIN providerLock : providerLock[p] = t}) <= 1
          /\ (HoldsProvider(t) \/ HoldsRunner(t)) => ENABLED TaskStep(t))
  /\ \A t \in TaskIds : Begun(t) ~> Ended(t)

\* A task waiting for the lock of a provider that another task holds.
C26_Witness ==
  \E t, u \in TaskIds :
    /\ t # u
    /\ Begun(u) /\ ~Ended(u) /\ ~ENABLED TaskStep(u)
    /\ HoldsProvider(t)
    /\ Wants(u, CHOOSE p \in DOMAIN providerLock : providerLock[p] = t)


\* A step of the teardown t inside provider.destroy.
Destroys(t) ==
  /\ tasks[t].kind = "teardown"
  /\ tasks[t].pc \in {"scan", "remove"}
  /\ tasks'[t] # tasks[t]

\* C27 (as claimed): a teardown stops or removes only a container that a
\* provision of this controller created: a runner_name naming a container
\* the controller did not create is never destroyed.
C27_TeardownDestroysOnlyOwnContainers ==
  [][\A t \in TaskIds : \A name \in DOMAIN containers :
       (Destroys(t) /\ containers'[name] # containers[name]) =>
         \E u \in TaskIds : CreatedBy(u, name)]_vars


\* C28 (as claimed): a provision acts for the account that authenticated its
\* request: the account whose api_token requests the registration token and
\* whose repository is registered is the one whose webhook_secret verified
\* the signature, so that a request signed with the secret of one account
\* never provisions for the repository of another.
C28_ProvisionsForTheAuthenticatingAccount ==
  \A t \in Provisions :
    (conn.phase = "replying" /\ conn.spawned = t /\ tasks[t].token # "") =>
      tasks[t].acct = conn.auth

====
